---- MODULE Spec2Model ----
\* SmartEnergyMonitor backend (src/backend/server.py): the device registry, the
\* occupancy controller, the hourly energy integrator and the two ledgers, as a
\* state machine over the four MongoDB collections the handlers read and write.
\*
\* Timestamps are integers: minutes since an arbitrary midnight. The wall clock
\* `now` moves in steps of TickMinutes. ISO strings written by .isoformat() and
\* read back by datetime.fromisoformat() denote the same instant, so a stored
\* timestamp is the integer itself. An Optional[datetime] is a sequence of
\* length 0 (None) or 1.
\*
\* Arithmetic on power and energy is Python float arithmetic in the source. The
\* power ratings the model enumerates are multiples of 3000 W, for which
\* power / 1000 and power * minutes / 60 are whole numbers, so \div computes the
\* same value as the float division.
EXTENDS Integers, Sequences, FiniteSets, TLC

\* ---------------------------------------------------------------- bounds
MaxRooms == 1
MaxDevices == 3
MaxHours == 1
MaxMetered == 2
MaxSampled == 1
MaxDays == 1
MaxLogs == 26
MaxTicks == 1
TicksPerHour == 4
MaxSavings == 1

\* ---------------------------------------------------------------- constants
HourMinutes == 60
SecondsPerMinute == 60
DayHours == 24
WattsPerKilowatt == 1000

TickMinutes == HourMinutes \div TicksPerHour
\* the clock's range: it starts one tick before an hour boundary; the request
\* handlers are followed for MaxTicks ticks, the hourly job up to the tick after
\* the last hour boundary
StartTime == 0 - TickMinutes
MaxRequestTime == StartTime + MaxTicks * TickMinutes
MaxTime == MaxHours * HourMinutes + TickMinutes

\* the ids requests name: one more room id than rooms can exist, so that
\* some id never names a room
RoomIds == 1..(MaxRooms + 1)
DeviceIds == 1..MaxDevices

\* RoomCreate.has_camera as the requests send it (its default)
HasCamera == {FALSE}

\* the bodies POST /api/devices is called with: a 3 kW light or a fan whose
\* rating was entered as 0 (DeviceCreate.power_rating is any float)
DeviceModels ==
    { [device_type |-> "light", power_rating |-> 3000],
      [device_type |-> "fan", power_rating |-> 0] }

VARIABLES
    now,                \* the server's wall clock, datetime.now(timezone.utc)
    issued,             \* how many room / device ids uuid4 has handed out
    rooms,              \* db.rooms, in insertion order
    devices,            \* db.devices, in insertion order
    hourly_power_logs,  \* db.hourly_power_logs, in insertion order
    energy_savings,     \* db.energy_savings, in insertion order
    job,                \* position of the scheduled log_hourly_consumption job
    last,               \* the request handled last: its arguments, its status code,
                        \* the handler's locals when it returned, the sizes
                        \* the two ledgers had when it arrived and the body
                        \* of the response to a query
    inflight            \* the device writes a handler has built, timestamp
                        \* included, and awaits: sent to the database and
                        \* not yet applied by it

vars == <<now, issued, rooms, devices, hourly_power_logs, energy_savings, job, last,
          inflight>>

\* ---------------------------------------------------------------- helpers
None == <<>>
Some(x) == <<x>>

\* find_one as it would be with an empty filter: the collection's first document
find_one_unfiltered(coll, id) ==
    IF coll = <<>> THEN None ELSE Some(Head(coll))

\* db.rooms.find_one({"id": room_id}): None or the first matching document
find_one(coll, id) ==
    LET hits == SelectSeq(coll, LAMBDA r : r.id = id)
    IN  IF hits = <<>> THEN None ELSE Some(Head(hits))

\* db.devices.find({"room_id": room_id, "is_on": True}).to_list(1000)
find_on(coll, room_id) ==
    SelectSeq(coll, LAMBDA d : d.room_id = room_id /\ d.is_on)

\* update_many_off as it would be if it spared the room's first light
update_many_off_sparing_light(coll, room_id, t) ==
    [i \in 1..Len(coll) |->
        IF /\ coll[i].room_id = room_id
           /\ coll[i].is_on
           /\ ~(/\ coll[i].device_type = "light"
                /\ \A j \in 1..(i - 1) :
                        coll[j].room_id = room_id => coll[j].device_type # "light")
        THEN [coll[i] EXCEPT !.is_on = FALSE, !.last_state_change = t]
        ELSE coll[i]]

\* db.devices.update_many({"room_id": room_id, "is_on": True},
\*     {"$set": {"is_on": False, "last_state_change": now}})
update_many_off(coll, room_id, t) ==
    [i \in 1..Len(coll) |->
        IF coll[i].room_id = room_id /\ coll[i].is_on
        THEN [coll[i] EXCEPT !.is_on = FALSE, !.last_state_change = t]
        ELSE coll[i]]

\* update_many_on as it would be if its filter also asked for "is_on": False
update_many_on_if_off(coll, room_id, t) ==
    [i \in 1..Len(coll) |->
        IF coll[i].room_id = room_id /\ ~coll[i].is_on
        THEN [coll[i] EXCEPT !.is_on = TRUE, !.last_state_change = t]
        ELSE coll[i]]

\* db.devices.update_many({"room_id": room_id},
\*     {"$set": {"is_on": True, "last_state_change": now}})
update_many_on(coll, room_id, t) ==
    [i \in 1..Len(coll) |->
        IF coll[i].room_id = room_id
        THEN [coll[i] EXCEPT !.is_on = TRUE, !.last_state_change = t]
        ELSE coll[i]]

\* update_one_state as it would be with the filter {} : every device is set
update_every_state(coll, device_id, is_on, t) ==
    [i \in 1..Len(coll) |->
        [coll[i] EXCEPT !.is_on = is_on, !.last_state_change = t]]

\* db.devices.update_one({"id": device_id}, {"$set": {...}}): the first match
update_one_state(coll, device_id, is_on, t) ==
    [i \in 1..Len(coll) |->
        IF coll[i].id = device_id
           /\ \A j \in 1..(i - 1) : coll[j].id # device_id
        THEN [coll[i] EXCEPT !.is_on = is_on, !.last_state_change = t]
        ELSE coll[i]]

\* update_one_room as it would be if update_data had no "last_seen"
update_one_room_occupied_only(coll, room_id, is_occupied, at) ==
    [i \in 1..Len(coll) |->
        IF coll[i].id = room_id
        THEN [coll[i] EXCEPT !.is_occupied = is_occupied]
        ELSE coll[i]]

\* db.rooms.update_one({"id": room_id}, {"$set": update_data})
update_one_room(coll, room_id, is_occupied, at) ==
    [i \in 1..Len(coll) |->
        IF coll[i].id = room_id
           /\ \A j \in 1..(i - 1) : coll[j].id # room_id
        THEN [coll[i] EXCEPT !.is_occupied = is_occupied, !.last_seen = Some(at)]
        ELSE coll[i]]

\* what `last` remembers of the ledgers a request found
Snapshot == [logs |-> Len(hourly_power_logs), savings |-> Len(energy_savings)]

NoRequest ==
    [op |-> "none", status |-> 0, room_id |-> 0, device_id |-> 0,
     is_occupied |-> FALSE, is_on |-> FALSE, at |-> 0, t |-> 0,
     energy_saved |-> 0, affected_device_ids |-> <<>>,
     pre |-> [logs |-> 0, savings |-> 0], query |-> None,
     response |-> None]

\* ---------------------------------------------------------------- Init
Init ==
    /\ now = StartTime
    /\ issued = [rooms |-> 0, devices |-> 0]
    /\ rooms = <<>>
    /\ devices = <<>>
    /\ hourly_power_logs = <<>>
    /\ energy_savings = <<>>
    /\ job = [pc |-> "idle", hour_start |-> 0, hour_end |-> 0, fired |-> None]
    /\ last = NoRequest
    /\ inflight = {}

\* ---------------------------------------------------------------- clock
Tick(max_time) ==
    /\ now + TickMinutes <= max_time
    /\ now' = now + TickMinutes
    /\ UNCHANGED <<issued, rooms, devices, hourly_power_logs, energy_savings, job, last, inflight>>

\* ---------------------------------------------------------------- rooms
\* POST /api/rooms
create_room(has_camera) ==
    /\ issued.rooms < MaxRooms
    /\ issued' = [issued EXCEPT !.rooms = @ + 1]
    /\ rooms' = Append(rooms,
            [id |-> issued.rooms + 1, has_camera |-> has_camera,
             is_occupied |-> FALSE, last_seen |-> None])
    /\ last' = [NoRequest EXCEPT !.op = "create_room", !.status = 200,
                    !.room_id = issued.rooms + 1, !.t = now, !.pre = Snapshot]
    /\ UNCHANGED <<now, devices, hourly_power_logs, energy_savings, job, inflight>>

\* ---------------------------------------------------------------- devices
\* POST /api/devices: the room id is stored as given, it is not looked up
create_device(room_id, power_rating, device_type) ==
    /\ issued.devices < MaxDevices
    /\ issued' = [issued EXCEPT !.devices = @ + 1]
    /\ devices' = Append(devices,
            [id |-> issued.devices + 1, room_id |-> room_id,
             power_rating |-> power_rating, device_type |-> device_type,
             is_on |-> TRUE, last_state_change |-> now])
    /\ last' = [NoRequest EXCEPT !.op = "create_device", !.status = 200,
                    !.room_id = room_id, !.device_id = issued.devices + 1,
                    !.t = now, !.pre = Snapshot]
    /\ UNCHANGED <<now, rooms, hourly_power_logs, energy_savings, job, inflight>>

\* PUT /api/devices/{device_id}/state
update_device_state(device_id, is_on) ==
    /\ devices' = update_one_state(devices, device_id, is_on, now)
    /\ last' = [NoRequest EXCEPT !.op = "update_device_state", !.status = 200,
                    !.device_id = device_id, !.is_on = is_on,
                    !.t = now, !.pre = Snapshot]
    /\ UNCHANGED <<now, issued, rooms, hourly_power_logs, energy_savings, job, inflight>>

\* ---------------------------------------------------------------- occupancy
\* the loop of lines 513-525 over the devices found on: every pass adds the
\* device's estimate, records its id and re-issues the update_many that turns
\* off every device of the room that is on
RECURSIVE turn_off_loop(_, _, _, _)
turn_off_loop(found, acc, room_id, t) ==
    IF found = <<>> THEN acc
    ELSE turn_off_loop(Tail(found),
            [energy_saved |-> acc.energy_saved
                                + (Head(found).power_rating \div WattsPerKilowatt),
             affected_device_ids |-> Append(acc.affected_device_ids, Head(found).id),
             devices |-> update_many_off(acc.devices, room_id, t)],
            room_id, t)

\* log_energy_savings as it would be without `if energy_saved > 0`
log_energy_savings_unguarded(coll, room_id, energy_saved, affected_device_ids, t) ==
    Append(coll, [room_id |-> room_id, energy_saved |-> energy_saved,
                  devices_affected |-> affected_device_ids, timestamp |-> t])

\* if energy_saved > 0: db.energy_savings.insert_one(EnergySaving(...))
log_energy_savings(coll, room_id, energy_saved, affected_device_ids, t) ==
    IF energy_saved > 0
    THEN Append(coll, [room_id |-> room_id, energy_saved |-> energy_saved,
                       devices_affected |-> affected_device_ids, timestamp |-> t])
    ELSE coll

\* POST /api/occupancy/update with body {room_id, is_occupied, timestamp}
update_occupancy(room_id, is_occupied, at) ==
    LET room == find_one(rooms, room_id)
        req  == [NoRequest EXCEPT !.op = "update_occupancy", !.room_id = room_id,
                    !.is_occupied = is_occupied, !.at = at, !.t = now,
                    !.pre = Snapshot]
        \* the unoccupied branch, lines 507-525
        off  == turn_off_loop(find_on(devices, room_id),
                    [energy_saved |-> 0, affected_device_ids |-> <<>>,
                     devices |-> devices], room_id, now)
    IN  IF room = None
        THEN /\ last' = [req EXCEPT !.status = 404]
             /\ UNCHANGED <<now, issued, rooms, devices, hourly_power_logs,
                            energy_savings, job, inflight>>
        ELSE /\ IF ~is_occupied
                THEN /\ devices' = off.devices
                     /\ energy_savings' =
                            log_energy_savings(energy_savings, room_id,
                                off.energy_saved, off.affected_device_ids, now)
                ELSE /\ devices' = update_many_on(devices, room_id, now)
                     /\ energy_savings' = energy_savings
             /\ rooms' = update_one_room(rooms, room_id, is_occupied, at)
             /\ last' = IF ~is_occupied
                        THEN [req EXCEPT !.status = 200,
                                !.energy_saved = off.energy_saved,
                                !.affected_device_ids = off.affected_device_ids]
                        ELSE [req EXCEPT !.status = 200]
             /\ UNCHANGED <<now, issued, hourly_power_logs, job, inflight>>

\* ---------------------------------------------------------------- hourly job
\* now.replace(minute=0, second=0, microsecond=0)
top_of_hour(t) == t - (t % HourMinutes)

\* timedelta.total_seconds() of a difference of two timestamps
total_seconds(minutes) == minutes * SecondsPerMinute

\* minutes_on as it would be if the off branch compared with <= hour_end
minutes_on_off_through_hour_end(is_on, last_state_change, hour_start, hour_end) ==
    IF is_on
    THEN IF last_state_change > hour_start
         THEN total_seconds(hour_end - last_state_change) \div SecondsPerMinute
         ELSE HourMinutes
    ELSE IF last_state_change > hour_start /\ last_state_change <= hour_end
         THEN total_seconds(last_state_change - hour_start) \div SecondsPerMinute
         ELSE 0

\* minutes_on as it would be if the on branch counted from hour_start
minutes_on_from_hour_start(is_on, last_state_change, hour_start, hour_end) ==
    IF is_on
    THEN IF last_state_change > hour_start
         THEN total_seconds(last_state_change - hour_start) \div SecondsPerMinute
         ELSE HourMinutes
    ELSE IF last_state_change > hour_start /\ last_state_change < hour_end
         THEN total_seconds(last_state_change - hour_start) \div SecondsPerMinute
         ELSE 0

\* minutes_on as it would be if the off branch measured up to hour_end
minutes_on_off_until_hour_end(is_on, last_state_change, hour_start, hour_end) ==
    IF is_on
    THEN IF last_state_change > hour_start
         THEN total_seconds(hour_end - last_state_change) \div SecondsPerMinute
         ELSE HourMinutes
    ELSE IF last_state_change > hour_start /\ last_state_change < hour_end
         THEN total_seconds(hour_end - last_state_change) \div SecondsPerMinute
         ELSE 0

\* lines 199-215: how long the device was on during [hour_start, hour_end),
\* from its current state and the time of its last change
minutes_on(is_on, last_state_change, hour_start, hour_end) ==
    IF is_on
    THEN IF last_state_change > hour_start
         THEN total_seconds(hour_end - last_state_change) \div SecondsPerMinute
         ELSE HourMinutes
    ELSE IF last_state_change > hour_start /\ last_state_change < hour_end
         THEN total_seconds(last_state_change - hour_start) \div SecondsPerMinute
         ELSE 0

\* energy_consumed_wh as it would be without the division by 60
energy_consumed_wh_undivided(power_rating, minutes) == power_rating * minutes

\* line 219: (power_rating * minutes_on) / 60
energy_consumed_wh(power_rating, minutes) ==
    (power_rating * minutes) \div HourMinutes

\* lines 222-232: the HourlyPowerLog document
HourlyPowerLog(device, minutes, hour_start, hour_end) ==
    [room_id |-> device.room_id,
     device_id |-> device.id,
     power_rating |-> device.power_rating,
     energy_consumed_wh |-> energy_consumed_wh(device.power_rating, minutes),
     hour_start |-> hour_start,
     hour_end |-> hour_end,
     was_on |-> minutes > 0,
     minutes_on |-> minutes]

\* log_hourly_begin as it would be without the `- timedelta(hours=1)`: the
\* window is the hour that has just begun
log_hourly_begin_current_hour ==
    /\ job.pc = "idle"
    /\ now % HourMinutes = 0
    /\ job.fired # Some(now)
    /\ job' = [pc |-> "find",
               hour_start |-> top_of_hour(now),
               hour_end |-> top_of_hour(now) + HourMinutes,
               fired |-> Some(now)]
    /\ UNCHANGED <<now, issued, rooms, devices, hourly_power_logs, energy_savings,
                   last, inflight>>

\* CronTrigger(minute=0) starts the job once in the first minute of an hour;
\* lines 184-186: the job reads the clock and fixes its window, then waits for
\* db.devices.find (line 189), while requests go on being handled
log_hourly_begin ==
    /\ job.pc = "idle"
    /\ now % HourMinutes = 0
    /\ job.fired # Some(now)
    /\ job' = [pc |-> "find",
               hour_start |-> top_of_hour(now) - HourMinutes,
               hour_end |-> top_of_hour(now),
               fired |-> Some(now)]
    /\ UNCHANGED <<now, issued, rooms, devices, hourly_power_logs, energy_savings, last, inflight>>

\* log_hourly_consumption as it would be if the job restarted every device's
\* last_state_change at the end of the hour it has just logged
log_hourly_consumption_restamping ==
    /\ job.pc = "find"
    /\ hourly_power_logs' = hourly_power_logs \o
            [i \in 1..Len(devices) |->
                HourlyPowerLog(devices[i],
                    minutes_on(devices[i].is_on, devices[i].last_state_change,
                               job.hour_start, job.hour_end),
                    job.hour_start, job.hour_end)]
    /\ devices' = [i \in 1..Len(devices) |->
                    [devices[i] EXCEPT !.last_state_change = job.hour_end]]
    /\ job' = [job EXCEPT !.pc = "idle"]
    /\ last' = [NoRequest EXCEPT !.op = "log_hourly_consumption", !.status = 200,
                    !.t = now, !.pre = Snapshot]
    /\ UNCHANGED <<now, issued, rooms, energy_savings, inflight>>

\* lines 189-240: the devices are read and one log is inserted for each
log_hourly_consumption ==
    /\ job.pc = "find"
    /\ hourly_power_logs' = hourly_power_logs \o
            [i \in 1..Len(devices) |->
                HourlyPowerLog(devices[i],
                    minutes_on(devices[i].is_on, devices[i].last_state_change,
                               job.hour_start, job.hour_end),
                    job.hour_start, job.hour_end)]
    /\ job' = [job EXCEPT !.pc = "idle"]
    /\ last' = [NoRequest EXCEPT !.op = "log_hourly_consumption", !.status = 200,
                    !.t = now, !.pre = Snapshot]
    /\ UNCHANGED <<now, issued, rooms, devices, energy_savings, inflight>>

\* ---------------------------------------------------------------- sample data
\* random.uniform(lo, hi): one of the two ends of the interval
uniform(lo, hi, u) == IF u = "lo" THEN lo ELSE hi

\* lines 849-858: the minutes drawn for a device in the hour starting hour_start
sample_minutes(device_type, hour_start, u) ==
    LET hour == (hour_start \div HourMinutes) % DayHours
        is_daytime == 6 <= hour /\ hour < 22
    IN  IF device_type = "light"
        THEN IF ~is_daytime THEN uniform(40, 60, u) ELSE uniform(0, 20, u)
        ELSE IF device_type = "ac"
        THEN IF is_daytime THEN uniform(30, 60, u) ELSE uniform(10, 30, u)
        ELSE IF device_type = "fan"
        THEN IF is_daytime THEN uniform(20, 60, u) ELSE uniform(0, 30, u)
        ELSE uniform(0, 60, u)

\* lines 842-880: the logs of one call, in the order the three loops insert
\* them (day_offset, then hour_offset, then device)
sample_logs(found, days, end_time, u) ==
    [k \in 1..(days * DayHours * Len(found)) |->
        LET day_offset  == (k - 1) \div (DayHours * Len(found))
            hour_offset == ((k - 1) \div Len(found)) % DayHours
            device      == found[((k - 1) % Len(found)) + 1]
            hour_start  == end_time - (day_offset * DayHours * HourMinutes
                                        + (hour_offset + 1) * HourMinutes)
        IN  HourlyPowerLog(device,
                sample_minutes(device.device_type, hour_start, u),
                hour_start, hour_start + HourMinutes)]

\* POST /api/admin/generate-sample-data?days=...; every draw of one call takes
\* the same end u of its interval. The HTTPException(400) raised for an empty
\* registry is caught by the handler's own except clause and answered as 500.
generate_sample_data(days, u) ==
    LET req == [NoRequest EXCEPT !.op = "generate_sample_data", !.t = now,
                    !.pre = Snapshot]
    IN  IF devices = <<>>
        THEN /\ last' = [req EXCEPT !.status = 500]
             /\ UNCHANGED <<now, issued, rooms, devices, hourly_power_logs,
                            energy_savings, job, inflight>>
        ELSE /\ hourly_power_logs' = hourly_power_logs \o
                    sample_logs(devices, days, top_of_hour(now), u)
             /\ last' = [req EXCEPT !.status = 200]
             /\ UNCHANGED <<now, issued, rooms, devices, energy_savings, job, inflight>>

\* the timestamps a client may put in the body: the server's time when the
\* request is made (also the default when the field is absent), or the time
\* of an event observed one tick earlier
Timestamps == {now, now - TickMinutes}

\* ---------------------------------------------------------------- Next
Next ==
    \/ Tick(MaxRequestTime)
    \/ \E c \in HasCamera : create_room(c)
    \/ \E r \in RoomIds, m \in DeviceModels :
            create_device(r, m.power_rating, m.device_type)
    \/ \E d \in DeviceIds, b \in BOOLEAN : update_device_state(d, b)
    \/ \E r \in RoomIds, b \in BOOLEAN, at \in Timestamps :
            /\ update_occupancy(r, b, at)
            /\ Len(energy_savings') <= MaxSavings

Spec == Init /\ [][Next]_vars

\* the registry's devices and the hourly job
NextHourly ==
    \/ Tick(MaxTime)
    \/ \E m \in DeviceModels :
            /\ Len(devices) < MaxMetered
            /\ create_device(1, m.power_rating, m.device_type)
    \/ \E d \in 1..MaxMetered, b \in BOOLEAN : update_device_state(d, b)
    \/ log_hourly_begin
    \/ log_hourly_consumption

SpecHourly == Init /\ [][NextHourly]_vars

\* the hourly job and the sample-data generator over a registry of MaxSampled devices
NextSample ==
    \/ Tick(MaxTime)
    \/ \E m \in DeviceModels :
            /\ Len(devices) < MaxSampled
            /\ create_device(1, m.power_rating, m.device_type)
    \/ log_hourly_begin
    \/ log_hourly_consumption
    \/ \E days \in 0..MaxDays, u \in {"lo", "hi"} :
            /\ generate_sample_data(days, u)
            /\ Len(hourly_power_logs') <= MaxLogs

SpecSample == Init /\ [][NextSample]_vars

\* ================================================================ properties
\* what the formulas read off the registry and the last request
DevicesOf(room_id) == SelectSeq(devices, LAMBDA d : d.room_id = room_id)
IdsOf(s) == [i \in 1..Len(s) |-> s[i].id]
TypesOf(s) == [i \in 1..Len(s) |-> s[i].device_type]
RoomOf(room_id) == Head(find_one(rooms, room_id))

\* the last request was an occupancy report for room r that was answered 200
Reported(r, is_occupied) ==
    /\ last.op = "update_occupancy"
    /\ last.status = 200
    /\ last.room_id = r
    /\ last.is_occupied = is_occupied

\* that report found every device of room r on (and the room has devices)
FoundAllOn(r) ==
    /\ DevicesOf(r) # <<>>
    /\ last.affected_device_ids = IdsOf(DevicesOf(r))

IsFirstLight(ds, i) ==
    /\ ds[i].device_type = "light"
    /\ \A j \in 1..(i - 1) : ds[j].device_type # "light"

\* C1 as stated: after an occupied=false report on a room whose devices were
\* all on, the room's first light is still on and every other device of the
\* room is off.
C1_FirstLightStaysOn ==
    \A r \in RoomIds :
        (Reported(r, FALSE) /\ FoundAllOn(r)) =>
            LET ds == DevicesOf(r)
            IN  \A i \in 1..Len(ds) : ds[i].is_on <=> IsFirstLight(ds, i)

\* C1 amended: after an occupied=false report on a room whose devices were all
\* on, every device of the room is off, the first light included.
C1_AllDevicesOff ==
    \A r \in RoomIds :
        (Reported(r, FALSE) /\ FoundAllOn(r)) =>
            LET ds == DevicesOf(r)
            IN  \A i \in 1..Len(ds) : ~ds[i].is_on

\* C1 witness: the report was handled for a room holding [light, fan, light],
\* all three on when it arrived.
C1_Witness ==
    \E r \in RoomIds :
        /\ Reported(r, FALSE)
        /\ FoundAllOn(r)
        /\ TypesOf(DevicesOf(r)) = <<"light", "fan", "light">>

\* C4 as stated: when an occupied=false report that found a device on is
\* followed directly by the same report, the two together append exactly one
\* EnergySavingRecord; the second finds no device on, changes no device and
\* appends nothing.
C4_ResendAppendsOnce ==
    [][ ( /\ last.op = "update_occupancy" /\ last.status = 200
          /\ ~last.is_occupied
          /\ last.affected_device_ids # <<>>
          /\ last' # last
          /\ last'.op = "update_occupancy" /\ last'.status = 200
          /\ ~last'.is_occupied
          /\ last'.room_id = last.room_id
          /\ last'.at = last.at )
        => ( /\ Len(energy_savings') = last.pre.savings + 1
             /\ last'.affected_device_ids = <<>>
             /\ devices' = devices
             /\ energy_savings' = energy_savings ) ]_vars

\* C9 as stated: after an occupied=true report with timestamp at, every device
\* of the room is on with last state change at, the room is occupied with
\* last_seen at, and no EnergySavingRecord was appended.
C9_AllOnAtReportTime ==
    \A r \in RoomIds :
        Reported(r, TRUE) =>
            /\ \A i \in 1..Len(DevicesOf(r)) :
                    /\ DevicesOf(r)[i].is_on
                    /\ DevicesOf(r)[i].last_state_change = last.at
            /\ RoomOf(r).is_occupied
            /\ RoomOf(r).last_seen = Some(last.at)
            /\ Len(energy_savings) = last.pre.savings

\* C9 amended: after an occupied=true report with timestamp at, every device of
\* the room is on with last state change equal to the server's clock when the
\* report was handled (not at); the room is occupied with last_seen at, and no
\* EnergySavingRecord was appended.
C9_AllOnAtServerTime ==
    \A r \in RoomIds :
        Reported(r, TRUE) =>
            /\ \A i \in 1..Len(DevicesOf(r)) :
                    /\ DevicesOf(r)[i].is_on
                    /\ DevicesOf(r)[i].last_state_change = last.t
            /\ RoomOf(r).is_occupied
            /\ RoomOf(r).last_seen = Some(last.at)
            /\ Len(energy_savings) = last.pre.savings

\* C9 witness: an occupied=true report whose timestamp differs from the
\* server's clock was handled for a room with two or more devices, after the
\* clock had moved on from their creation.
C9_Witness ==
    \E r \in RoomIds :
        /\ Reported(r, TRUE)
        /\ Len(DevicesOf(r)) >= 2
        /\ last.at # last.t
        /\ last.t > StartTime

\* C10: after an occupied=false report with timestamp at on an existing room,
\* the room is unoccupied with last_seen at, whether or not a device changed.
C10_RoomAlwaysUpdated ==
    \A r \in RoomIds :
        Reported(r, FALSE) =>
            /\ ~RoomOf(r).is_occupied
            /\ RoomOf(r).last_seen = Some(last.at)

\* C10 witness: the report turned nothing off (the room had a device, but
\* none was on) and its timestamp is not the server's clock.
C10_Witness ==
    \E r \in RoomIds :
        /\ Reported(r, FALSE)
        /\ last.affected_device_ids = <<>>
        /\ DevicesOf(r) # <<>>
        /\ last.at # last.t

\* the last thing completed was a run of the hourly job; its i-th log is the
\* one written for devices[i], which no request has touched since
RunCompleted == last.op = "log_hourly_consumption"
RunLog(i) == hourly_power_logs[last.pre.logs + i]

\* C2 as stated: every HourlyEnergyRecord in the ledger has 0 <= minutesOn <= 60.
C2_MinutesWithinHour ==
    \A i \in 1..Len(hourly_power_logs) :
        /\ 0 <= hourly_power_logs[i].minutes_on
        /\ hourly_power_logs[i].minutes_on <= HourMinutes

\* C3 as stated: the hourly ledger holds at most one record for each
\* (deviceId, hourStart) pair.
C3_OneLogPerDeviceHour ==
    \A i, j \in 1..Len(hourly_power_logs) :
        (/\ hourly_power_logs[i].device_id = hourly_power_logs[j].device_id
         /\ hourly_power_logs[i].hour_start = hourly_power_logs[j].hour_start)
            => i = j

\* C5: a device that is on with lastStateChange > hourStart when the job reads
\* it gets minutesOn = the minutes from lastStateChange to hourEnd.
C5_SwitchedOnMidHour ==
    RunCompleted =>
        \A i \in 1..Len(devices) :
            (devices[i].is_on /\ devices[i].last_state_change > RunLog(i).hour_start)
                => /\ RunLog(i).device_id = devices[i].id
                   /\ RunLog(i).minutes_on =
                        RunLog(i).hour_end - devices[i].last_state_change

\* C5 witness: a device switched on a quarter past the hour was logged with
\* the remaining three quarters.
C5_Witness ==
    /\ RunCompleted
    /\ \E i \in 1..Len(devices) :
        /\ devices[i].is_on
        /\ devices[i].last_state_change = RunLog(i).hour_start + TickMinutes
        /\ RunLog(i).minutes_on = HourMinutes - TickMinutes
        /\ RunLog(i).minutes_on > 0

\* C6: a device that is off with hourStart < lastStateChange < hourEnd when the
\* job reads it gets minutesOn = the minutes from hourStart to lastStateChange.
C6_SwitchedOffMidHour ==
    RunCompleted =>
        \A i \in 1..Len(devices) :
            (/\ ~devices[i].is_on
             /\ RunLog(i).hour_start < devices[i].last_state_change
             /\ devices[i].last_state_change < RunLog(i).hour_end)
                => /\ RunLog(i).device_id = devices[i].id
                   /\ RunLog(i).minutes_on =
                        devices[i].last_state_change - RunLog(i).hour_start

\* C6 witness: a device switched off later than the first tick of the window
\* (so it may have been switched on inside the window before) was logged with
\* all the minutes since hourStart.
C6_Witness ==
    /\ RunCompleted
    /\ \E i \in 1..Len(devices) :
        /\ ~devices[i].is_on
        /\ devices[i].last_state_change > RunLog(i).hour_start + TickMinutes
        /\ devices[i].last_state_change < RunLog(i).hour_end
        /\ RunLog(i).minutes_on > TickMinutes

\* C7: a device that is on with lastStateChange <= hourStart gets minutesOn =
\* 60; a device that is off with lastStateChange <= hourStart or
\* lastStateChange >= hourEnd gets minutesOn = 0.
C7_BoundaryTieBreak ==
    RunCompleted =>
        \A i \in 1..Len(devices) :
            /\ (devices[i].is_on
                    /\ devices[i].last_state_change <= RunLog(i).hour_start)
                => RunLog(i).minutes_on = HourMinutes
            /\ (~devices[i].is_on
                    /\ (\/ devices[i].last_state_change <= RunLog(i).hour_start
                        \/ devices[i].last_state_change >= RunLog(i).hour_end))
                => RunLog(i).minutes_on = 0

\* C7 witness: one run logged a device switched on exactly at hourStart and a
\* device switched off exactly at hourEnd.
C7_Witness ==
    /\ RunCompleted
    /\ \E i, j \in 1..Len(devices) :
        /\ devices[i].is_on
        /\ devices[i].last_state_change = RunLog(i).hour_start
        /\ ~devices[j].is_on
        /\ devices[j].last_state_change = RunLog(j).hour_end

\* C8: every log the job writes has energyWh = powerRatingWatts * minutesOn / 60
\* for the rating of the device it read, and wasOn exactly when minutesOn > 0.
C8_EnergyFromMinutes ==
    /\ \A k \in 1..Len(hourly_power_logs) :
        /\ hourly_power_logs[k].energy_consumed_wh * HourMinutes =
                hourly_power_logs[k].power_rating * hourly_power_logs[k].minutes_on
        /\ hourly_power_logs[k].was_on <=> hourly_power_logs[k].minutes_on > 0
    /\ RunCompleted =>
        \A i \in 1..Len(devices) :
            RunLog(i).power_rating = devices[i].power_rating

\* C8 witness: one run logged a 3 kW device on for part of the hour and a
\* device that was not on at all.
C8_Witness ==
    /\ RunCompleted
    /\ \E i, j \in 1..Len(devices) :
        /\ RunLog(i).power_rating > 0
        /\ RunLog(i).minutes_on > 0
        /\ RunLog(i).minutes_on < HourMinutes
        /\ RunLog(i).energy_consumed_wh > 0
        /\ RunLog(i).was_on
        /\ RunLog(j).minutes_on = 0
        /\ ~RunLog(j).was_on

\* the devices of the registry whose id is in the sequence ids
WithIds(ids) ==
    SelectSeq(devices, LAMBDA d : \E k \in 1..Len(ids) : ids[k] = d.id)

\* the savings estimate of a sequence of devices: their ratings in kW, summed
RECURSIVE KilowattsOf(_)
KilowattsOf(s) ==
    IF s = <<>> THEN 0
    ELSE (Head(s).power_rating \div WattsPerKilowatt) + KilowattsOf(Tail(s))

\* C11 as stated: an occupied=false report that turned at least one device off
\* appended exactly one EnergySavingRecord, whose energy_saved is the sum of
\* power_rating / 1000 over the devices turned off and whose devices_affected
\* are exactly those devices.
C11_SweepAppendsOneRecord ==
    \A r \in RoomIds :
        (Reported(r, FALSE) /\ last.affected_device_ids # <<>>) =>
            /\ Len(energy_savings) = last.pre.savings + 1
            /\ energy_savings[Len(energy_savings)].room_id = r
            /\ energy_savings[Len(energy_savings)].devices_affected
                    = last.affected_device_ids
            /\ energy_savings[Len(energy_savings)].energy_saved
                    = KilowattsOf(WithIds(last.affected_device_ids))

\* C13: an occupancy report naming a room id that is not in db.rooms is
\* answered 404 and leaves rooms, devices and both ledgers as they were.
C13_UnknownRoomNotFound ==
    [][ ( /\ last' # last
          /\ last'.op = "update_occupancy"
          /\ \A i \in 1..Len(rooms) : rooms[i].id # last'.room_id )
        => ( /\ last'.status = 404
             /\ UNCHANGED <<rooms, devices, hourly_power_logs, energy_savings>> ) ]_vars

\* C13 witness: the report named a room that does not exist while another room
\* does, and a device that is on carries the unknown room id.
C13_Witness ==
    /\ last.op = "update_occupancy"
    /\ last.status = 404
    /\ rooms # <<>>
    /\ \A i \in 1..Len(rooms) : rooms[i].id # last.room_id
    /\ \E i \in 1..Len(devices) :
            devices[i].room_id = last.room_id /\ devices[i].is_on

\* C18 as stated: a state change for a device id that is not in db.devices is
\* answered 404, never with success, and appends to neither ledger.
C18_UnknownDeviceNotFound ==
    ( /\ last.op = "update_device_state"
      /\ \A i \in 1..Len(devices) : devices[i].id # last.device_id )
    => ( /\ last.status = 404
         /\ Len(hourly_power_logs) = last.pre.logs
         /\ Len(energy_savings) = last.pre.savings )

\* ================================================================ concurrent writers
\* A handler evaluates datetime.now(timezone.utc) while it builds the update
\* document and only then awaits the driver call; requests are served
\* concurrently, so between the clock read and the write the database may
\* apply the writes of other handlers.

\* how many handlers may be suspended on their device write at once
MaxWriters == 2

NoWrite ==
    [op |-> "none", device_id |-> 0, room_id |-> 0, is_on |-> FALSE,
     is_occupied |-> FALSE, at |-> 0, t |-> 0, energy_saved |-> 0,
     affected_device_ids |-> <<>>, pre |-> [logs |-> 0, savings |-> 0]]

\* PUT /api/devices/{device_id}/state up to the await of line 479: the update
\* document holds the clock read of line 483
update_device_state_begin(device_id, is_on) ==
    /\ Cardinality(inflight) < MaxWriters
    /\ inflight' = inflight \cup
            {[NoWrite EXCEPT !.op = "update_device_state",
                !.device_id = device_id, !.is_on = is_on, !.t = now,
                !.pre = Snapshot]}
    /\ UNCHANGED <<now, issued, rooms, devices, hourly_power_logs, energy_savings,
                   job, last>>

\* the database applies the update_one and the handler returns
update_device_state_write(w) ==
    /\ w \in inflight
    /\ w.op = "update_device_state"
    /\ inflight' = inflight \ {w}
    /\ devices' = update_one_state(devices, w.device_id, w.is_on, w.t)
    /\ last' = [NoRequest EXCEPT !.op = "update_device_state", !.status = 200,
                    !.device_id = w.device_id, !.is_on = w.is_on,
                    !.t = w.t, !.pre = w.pre]
    /\ UNCHANGED <<now, issued, rooms, hourly_power_logs, energy_savings, job>>

\* POST /api/occupancy/update up to the await of its device write: the room
\* was found, the devices that are on were read (unoccupied branch) and the
\* update document holds the clock read of line 522 or 542
update_occupancy_begin(room_id, is_occupied, at) ==
    LET found == find_on(devices, room_id)
    IN  /\ Cardinality(inflight) < MaxWriters
        /\ find_one(rooms, room_id) # None
        /\ inflight' = inflight \cup
            {[NoWrite EXCEPT !.op = "update_occupancy", !.room_id = room_id,
                !.is_occupied = is_occupied, !.at = at, !.t = now,
                !.energy_saved = IF is_occupied THEN 0 ELSE KilowattsOf(found),
                !.affected_device_ids = IF is_occupied THEN <<>> ELSE IdsOf(found),
                !.pre = Snapshot]}
        /\ UNCHANGED <<now, issued, rooms, devices, hourly_power_logs,
                       energy_savings, job, last>>

\* the database applies the update_many (none is issued when the unoccupied
\* branch found no device on) and the handler runs to its end: the savings
\* record, then the room
update_occupancy_write(w) ==
    /\ w \in inflight
    /\ w.op = "update_occupancy"
    /\ inflight' = inflight \ {w}
    /\ devices' = IF w.is_occupied
                  THEN update_many_on(devices, w.room_id, w.t)
                  ELSE IF w.affected_device_ids = <<>>
                       THEN devices
                       ELSE update_many_off(devices, w.room_id, w.t)
    /\ energy_savings' =
            IF w.is_occupied THEN energy_savings
            ELSE log_energy_savings(energy_savings, w.room_id, w.energy_saved,
                                    w.affected_device_ids, now)
    /\ rooms' = update_one_room(rooms, w.room_id, w.is_occupied, w.at)
    /\ last' = [NoRequest EXCEPT !.op = "update_occupancy", !.status = 200,
                    !.room_id = w.room_id, !.is_occupied = w.is_occupied,
                    !.at = w.at, !.t = w.t, !.energy_saved = w.energy_saved,
                    !.affected_device_ids = w.affected_device_ids,
                    !.pre = w.pre]
    /\ UNCHANGED <<now, issued, hourly_power_logs, job>>

NextWriters ==
    \/ Tick(MaxRequestTime)
    \/ \E c \in HasCamera : create_room(c)
    \/ \E m \in DeviceModels :
            /\ Len(devices) < MaxMetered
            /\ create_device(1, m.power_rating, m.device_type)
    \/ \E d \in 1..issued.devices, b \in BOOLEAN : update_device_state_begin(d, b)
    \/ \E r \in 1..MaxRooms, b \in BOOLEAN : update_occupancy_begin(r, b, now)
    \/ \E w \in inflight : update_device_state_write(w)
    \/ \E w \in inflight :
            /\ update_occupancy_write(w)
            /\ Len(energy_savings') <= MaxSavings

SpecWriters == Init /\ [][NextWriters]_vars

\* the devices a write in flight is addressed to
Addressed(w, d) ==
    IF w.op = "update_device_state" THEN d.id = w.device_id
    ELSE /\ d.room_id = w.room_id
         /\ w.is_occupied \/ (d.is_on /\ w.affected_device_ids # <<>>)

\* C14 as stated: when the database applies a device write whose timestamp is
\* strictly earlier than the last_state_change the device has by then, the
\* write is dropped: the device keeps its is_on and its last_state_change.
C14_StaleWriteDropped ==
    [][ \A w \in inflight :
            inflight' = inflight \ {w} =>
                \A i \in 1..Len(devices) :
                    (Addressed(w, devices[i]) /\ w.t < devices[i].last_state_change)
                        => devices'[i] = devices[i] ]_vars

\* C15 as stated: whatever the order in which the database applies the writes
\* of concurrent handlers, no device's stored last_state_change ever decreases.
C15_LastStateChangeMonotone ==
    [][ /\ Len(devices') >= Len(devices)
        /\ \A i \in 1..Len(devices) :
                devices'[i].last_state_change >= devices[i].last_state_change ]_vars

\* ================================================================ a failing insert
\* lines 181-243 with insert_one (line 238) raising for the k-th device read:
\* the logs of the devices before it are in the ledger, the exception leaves
\* the for loop and is caught by the except of line 242, which logs it
log_hourly_consumption_raises(k) ==
    /\ job.pc = "find"
    /\ k \in 1..Len(devices)
    /\ hourly_power_logs' = hourly_power_logs \o
            [i \in 1..(k - 1) |->
                HourlyPowerLog(devices[i],
                    minutes_on(devices[i].is_on, devices[i].last_state_change,
                               job.hour_start, job.hour_end),
                    job.hour_start, job.hour_end)]
    /\ job' = [job EXCEPT !.pc = "idle"]
    /\ last' = [NoRequest EXCEPT !.op = "log_hourly_consumption", !.status = 500,
                    !.device_id = devices[k].id, !.t = now, !.pre = Snapshot]
    /\ UNCHANGED <<now, issued, rooms, devices, energy_savings, inflight>>

NextFaulty ==
    \/ NextHourly
    \/ \E k \in 1..MaxMetered : log_hourly_consumption_raises(k)

SpecFaulty == Init /\ [][NextFaulty]_vars

\* C16 as stated: when the insert for one device fails during a run, every
\* other device read by the run still has its log for the run's hour, those
\* read after the failing one included.
C16_FailureIsolated ==
    (last.op = "log_hourly_consumption" /\ last.status = 500) =>
        \A i \in 1..Len(devices) :
            devices[i].id # last.device_id =>
                \E n \in (last.pre.logs + 1)..Len(hourly_power_logs) :
                    /\ hourly_power_logs[n].device_id = devices[i].id
                    /\ hourly_power_logs[n].hour_start = job.hour_start

\* ================================================================ deletions
\* db.rooms.delete_one({"id": id}) / db.devices.delete_one({"id": id}):
\* the first matching document goes
delete_one(coll, id) ==
    IF \E i \in 1..Len(coll) : coll[i].id = id
    THEN LET k == CHOOSE i \in 1..Len(coll) :
                    /\ coll[i].id = id
                    /\ \A j \in 1..(i - 1) : coll[j].id # id
         IN  SubSeq(coll, 1, k - 1) \o SubSeq(coll, k + 1, Len(coll))
    ELSE coll

\* delete_many as it would be if it were a delete_one on the same filter
delete_many_first(coll, room_id) ==
    IF \E i \in 1..Len(coll) : coll[i].room_id = room_id
    THEN LET k == CHOOSE i \in 1..Len(coll) :
                    /\ coll[i].room_id = room_id
                    /\ \A j \in 1..(i - 1) : coll[j].room_id # room_id
         IN  SubSeq(coll, 1, k - 1) \o SubSeq(coll, k + 1, Len(coll))
    ELSE coll

\* db.devices.delete_many({"room_id": room_id})
delete_many(coll, room_id) ==
    SelectSeq(coll, LAMBDA d : d.room_id # room_id)

\* delete_room as it would be if the cascade also deleted the room's hourly logs
delete_room_purging_logs(room_id) ==
    /\ rooms' = delete_one(rooms, room_id)
    /\ devices' = delete_many(devices, room_id)
    /\ hourly_power_logs' = delete_many(hourly_power_logs, room_id)
    /\ last' = [NoRequest EXCEPT !.op = "delete_room", !.status = 200,
                    !.room_id = room_id, !.t = now, !.pre = Snapshot]
    /\ UNCHANGED <<now, issued, energy_savings, job, inflight>>

\* DELETE /api/rooms/{room_id}
delete_room(room_id) ==
    /\ rooms' = delete_one(rooms, room_id)
    /\ devices' = delete_many(devices, room_id)
    /\ last' = [NoRequest EXCEPT !.op = "delete_room", !.status = 200,
                    !.room_id = room_id, !.t = now, !.pre = Snapshot]
    /\ UNCHANGED <<now, issued, hourly_power_logs, energy_savings, job, inflight>>

\* DELETE /api/devices/{device_id}
delete_device(device_id) ==
    /\ devices' = delete_one(devices, device_id)
    /\ last' = [NoRequest EXCEPT !.op = "delete_device", !.status = 200,
                    !.device_id = device_id, !.t = now, !.pre = Snapshot]
    /\ UNCHANGED <<now, issued, rooms, hourly_power_logs, energy_savings, job,
                   inflight>>

\* ================================================================ simulated occupancy
\* turn_off_each as it would be if `idx == 0 and` were missing: every light
\* found on is skipped
RECURSIVE turn_off_each_but_lights(_, _, _, _)
turn_off_each_but_lights(found, idx, coll, t) ==
    IF found = <<>> THEN coll
    ELSE turn_off_each_but_lights(Tail(found), idx + 1,
            IF Head(found).device_type = "light"
            THEN coll
            ELSE update_one_state(coll, Head(found).id, FALSE, t),
            t)

\* lines 953-963: of the devices found on, all but a light at index 0 are
\* turned off, one update_one each
RECURSIVE turn_off_each(_, _, _, _)
turn_off_each(found, idx, coll, t) ==
    IF found = <<>> THEN coll
    ELSE turn_off_each(Tail(found), idx + 1,
            IF idx = 0 /\ Head(found).device_type = "light"
            THEN coll
            ELSE update_one_state(coll, Head(found).id, FALSE, t),
            t)

\* lines 929-963: the loop over the rooms without a camera; choice[id] is what
\* random.choice([True, False, False]) returns for the room
RECURSIVE simulate_rooms(_, _, _, _)
simulate_rooms(found, db, choice, t) ==
    IF found = <<>> THEN db
    ELSE LET room == Head(found)
             is_occupied == choice[room.id]
         IN  simulate_rooms(Tail(found),
                [rooms |-> update_one_room(db.rooms, room.id, is_occupied, t),
                 devices |->
                    IF is_occupied
                    THEN update_many_on(db.devices, room.id, t)
                    ELSE turn_off_each(find_on(db.devices, room.id), 0,
                                       db.devices, t)],
                choice, t)

\* POST /api/simulate-occupancy
simulate_occupancy(choice) ==
    LET found == SelectSeq(rooms, LAMBDA r : ~r.has_camera)
        db    == simulate_rooms(found, [rooms |-> rooms, devices |-> devices],
                                choice, now)
    IN  /\ rooms' = db.rooms
        /\ devices' = db.devices
        /\ last' = [NoRequest EXCEPT !.op = "simulate_occupancy", !.status = 200,
                        !.t = now, !.pre = Snapshot]
        /\ UNCHANGED <<now, issued, hourly_power_logs, energy_savings, job,
                       inflight>>

\* ================================================================ dashboard
\* Python's a / b: the quotient, kept as a fraction
true_div(a, b) == [num |-> a, den |-> b]

\* sum(...) of the values a generator yields, in order
RECURSIVE sum(_)
sum(values) ==
    IF values = <<>> THEN 0 ELSE Head(values) + sum(Tail(values))

\* current_power as it would be without its `if d.get('is_on', True)`
current_power_of_all(coll) ==
    sum([i \in 1..Len(coll) |-> coll[i].power_rating])

\* line 568: sum(d['power_rating'] for d in devices if d.get('is_on', True))
current_power(coll) ==
    LET on == SelectSeq(coll, LAMBDA d : d.is_on)
    IN  sum([i \in 1..Len(on) |-> on[i].power_rating])

\* total_consumed as it would be without the division by 1000
total_consumed_wh(coll) ==
    true_div(sum([i \in 1..Len(coll) |-> coll[i].energy_consumed_wh]), 1)

\* line 561: sum(log['energy_consumed_wh'] for log in logs) / 1000
total_consumed(coll) ==
    true_div(sum([i \in 1..Len(coll) |-> coll[i].energy_consumed_wh]),
             WattsPerKilowatt)

\* the lengths passed to to_list by the dashboard's four scans
MaxScanned == 1000
MaxLogsScanned == 10000

\* cursor.to_list(length): the first `length` documents of the scan
to_list(coll, length) ==
    IF Len(coll) <= length THEN coll ELSE SubSeq(coll, 1, length)

\* lines 553-580: the DashboardStats built from the four collections
DashboardStats ==
    LET rooms_read   == to_list(rooms, MaxScanned)
        devices_read == to_list(devices, MaxScanned)
        logs         == to_list(hourly_power_logs, MaxLogsScanned)
        savings      == to_list(energy_savings, MaxScanned)
        occupied     == Len(SelectSeq(rooms_read, LAMBDA r : r.is_occupied))
        devices_on   == Len(SelectSeq(devices_read, LAMBDA d : d.is_on))
    IN  [total_rooms |-> Len(rooms_read),
         occupied_rooms |-> occupied,
         unoccupied_rooms |-> Len(rooms_read) - occupied,
         total_devices |-> Len(devices_read),
         devices_on |-> devices_on,
         devices_off |-> Len(devices_read) - devices_on,
         total_energy_consumed |-> total_consumed(logs),
         total_energy_saved |->
            sum([i \in 1..Len(savings) |-> savings[i].energy_saved]),
         current_power_usage |-> current_power(devices_read)]

\* GET /api/dashboard/stats
get_dashboard_stats ==
    /\ last' = [NoRequest EXCEPT !.op = "get_dashboard_stats", !.status = 200,
                    !.t = now, !.pre = Snapshot,
                    !.response = Some(DashboardStats)]
    /\ UNCHANGED <<now, issued, rooms, devices, hourly_power_logs, energy_savings,
                   job, inflight>>

\* ================================================================ the whole API
\* every handler that writes the registry and the scheduled job, over a
\* registry that is handed at most MaxMetered device ids
NextHome ==
    \/ Tick(MaxRequestTime)
    \/ \E c \in HasCamera : create_room(c)
    \/ \E r \in RoomIds, m \in DeviceModels :
            /\ issued.devices < MaxMetered
            /\ create_device(r, m.power_rating, m.device_type)
    \/ \E d \in 1..issued.devices, b \in BOOLEAN : update_device_state(d, b)
    \/ \E r \in RoomIds, b \in BOOLEAN :
            /\ update_occupancy(r, b, now)
            /\ Len(energy_savings') <= MaxSavings
    \/ \E choice \in [1..MaxRooms -> BOOLEAN] : simulate_occupancy(choice)
    \/ \E r \in RoomIds : delete_room(r)
    \/ \E d \in 1..issued.devices : delete_device(d)
    \/ log_hourly_begin
    \/ log_hourly_consumption

SpecHome == Init /\ [][NextHome]_vars

\* the handlers that fill the four collections, the scheduled job and the
\* dashboard query
NextDashboard ==
    \/ Tick(MaxRequestTime)
    \/ \E c \in HasCamera : create_room(c)
    \/ \E m \in DeviceModels : create_device(1, m.power_rating, m.device_type)
    \/ \E d \in 1..issued.devices, b \in BOOLEAN : update_device_state(d, b)
    \/ \E b \in BOOLEAN :
            /\ update_occupancy(1, b, now)
            /\ Len(energy_savings') <= MaxSavings
    \/ log_hourly_begin
    \/ log_hourly_consumption
    \/ get_dashboard_stats

SpecDashboard == Init /\ [][NextDashboard]_vars

\* ================================================================ properties of the whole API
\* C12: every EnergySavingRecord has a non-empty devices_affected, and the
\* savings ledger changes only by an occupied=false report that found a device
\* on appending one record; occupied=true reports, manual state changes,
\* simulated occupancy, the hourly job and room or device deletions leave the
\* ledger as it is.
C12_OnlySweepsAppendSavings ==
    [][ /\ \A n \in 1..Len(energy_savings') :
                energy_savings'[n].devices_affected # <<>>
        /\ energy_savings' # energy_savings =>
                /\ last'.op = "update_occupancy"
                /\ last'.status = 200
                /\ ~last'.is_occupied
                /\ last'.affected_device_ids # <<>>
                /\ Len(energy_savings') = Len(energy_savings) + 1
                /\ SubSeq(energy_savings', 1, Len(energy_savings)) = energy_savings
                /\ energy_savings'[Len(energy_savings')].devices_affected
                        = last'.affected_device_ids ]_vars

\* C12 witness: a sweep appended a record, the hourly job has run, and the
\* request handled last deleted the room the record is about; the record is
\* still in the ledger.
C12_Witness ==
    /\ energy_savings # <<>>
    /\ hourly_power_logs # <<>>
    /\ last.op = "delete_room"
    /\ energy_savings[1].room_id = last.room_id

\* C17: delete_room(r) leaves no room with id r and no device with room_id r,
\* and leaves the other rooms and the devices of other rooms as they were.
C17_DeleteRoomCascades ==
    [][ (last' # last /\ last'.op = "delete_room") =>
            LET r == last'.room_id
            IN  /\ \A i \in 1..Len(rooms') : rooms'[i].id # r
                /\ \A i \in 1..Len(devices') : devices'[i].room_id # r
                /\ SelectSeq(devices', LAMBDA d : d.room_id # r)
                        = SelectSeq(devices, LAMBDA d : d.room_id # r)
                /\ SelectSeq(rooms', LAMBDA x : x.id # r)
                        = SelectSeq(rooms, LAMBDA x : x.id # r) ]_vars

\* C17 witness: the room deleted last existed and had a device before the
\* request (its id was issued and it is gone), and a device of another room is
\* still registered.
C17_Witness ==
    /\ last.op = "delete_room"
    /\ last.room_id \in 1..issued.rooms
    /\ rooms = <<>>
    /\ issued.devices = MaxMetered
    /\ Len(devices) = 1
    /\ devices[1].room_id # last.room_id

\* ================================================================ properties of the dashboard
\* the sum of f over the index set S
RECURSIVE SumOver(_, _)
SumOver(S, f) ==
    IF S = {} THEN 0
    ELSE LET x == CHOOSE y \in S : TRUE
         IN  f[x] + SumOver(S \ {x}, f)

\* the body of the response when the request handled last was the dashboard query
Answered == last.op = "get_dashboard_stats" /\ last.status = 200
Stats == Head(last.response)

\* C19: the dashboard's current_power_usage is the sum of power_rating over
\* exactly the devices that are on, whatever the two ledgers hold.
C19_CurrentPowerOfDevicesOn ==
    Answered =>
        Stats.current_power_usage =
            SumOver({i \in 1..Len(devices) : devices[i].is_on},
                    [i \in 1..Len(devices) |-> devices[i].power_rating])

\* C19 witness: the dashboard was read with a rated device on, a rated device
\* off, and records in both ledgers.
C19_Witness ==
    /\ Answered
    /\ \E i, j \in 1..Len(devices) :
        /\ devices[i].is_on /\ devices[i].power_rating > 0
        /\ ~devices[j].is_on /\ devices[j].power_rating > 0
    /\ hourly_power_logs # <<>>
    /\ energy_savings # <<>>

\* C20: in the dashboard's answer occupied_rooms + unoccupied_rooms =
\* total_rooms, devices_on + devices_off = total_devices (the sizes of the two
\* registries), total_energy_consumed is the sum of energy_consumed_wh over the
\* hourly ledger divided by 1000, and total_energy_saved is the sum of
\* energy_saved over the savings ledger.
C20_TotalsAddUp ==
    Answered =>
        /\ Stats.total_rooms = Len(rooms)
        /\ Stats.occupied_rooms + Stats.unoccupied_rooms = Stats.total_rooms
        /\ Stats.total_devices = Len(devices)
        /\ Stats.devices_on + Stats.devices_off = Stats.total_devices
        /\ Stats.total_energy_consumed.num * WattsPerKilowatt =
                Stats.total_energy_consumed.den
                    * SumOver(1..Len(hourly_power_logs),
                        [i \in 1..Len(hourly_power_logs) |->
                            hourly_power_logs[i].energy_consumed_wh])
        /\ Stats.total_energy_saved =
                SumOver(1..Len(energy_savings),
                    [i \in 1..Len(energy_savings) |-> energy_savings[i].energy_saved])

\* C20 witness: the dashboard was read with a room, devices on and off, logs
\* with energy in the hourly ledger and a positive saving in the savings ledger.
C20_Witness ==
    /\ Answered
    /\ Stats.total_rooms > 0
    /\ Stats.devices_on > 0
    /\ Stats.devices_off > 0
    /\ Stats.total_energy_consumed.num > 0
    /\ Len(hourly_power_logs) > 1
    /\ Stats.total_energy_saved > 0

\* ================================================================ properties of the registry
\* C25 as stated: in every reachable state every device's room_id names a room
\* of db.rooms.
C25_DevicesNameExistingRooms ==
    \A i \in 1..Len(devices) :
        \E k \in 1..Len(rooms) : rooms[k].id = devices[i].room_id

\* C26: a manual state change of an existing device sets that device's is_on
\* and last_state_change and nothing else: its other fields, every other
\* device, every room and both ledgers are as before.
C26_StateChangeTouchesOneDevice ==
    [][ ( /\ last' # last
          /\ last'.op = "update_device_state"
          /\ \E i \in 1..Len(devices) : devices[i].id = last'.device_id )
        => ( /\ UNCHANGED <<rooms, hourly_power_logs, energy_savings>>
             /\ Len(devices') = Len(devices)
             /\ \A i \in 1..Len(devices) :
                    IF devices[i].id = last'.device_id
                    THEN /\ devices'[i].is_on = last'.is_on
                         /\ devices'[i] =
                                [devices[i] EXCEPT
                                    !.is_on = devices'[i].is_on,
                                    !.last_state_change = devices'[i].last_state_change]
                    ELSE devices'[i] = devices[i] ) ]_vars

\* C26 witness: the device named by the state change exists next to another
\* device of the same room that is in the other state, with a room in the
\* registry and a record in the savings ledger.
C26_Witness ==
    /\ last.op = "update_device_state"
    /\ energy_savings # <<>>
    /\ rooms # <<>>
    /\ \E i, j \in 1..Len(devices) :
        /\ devices[i].id = last.device_id
        /\ devices[i].is_on = last.is_on
        /\ devices[j].room_id = devices[i].room_id
        /\ devices[j].is_on # devices[i].is_on

\* ================================================================ the ledgers over two hours
\* every handler that writes a collection and the scheduled job, followed
\* over MaxHours hour boundaries with a registry that is handed at most
\* MaxSampled device ids
NextLedger ==
    \/ Tick(MaxTime)
    \/ \E c \in HasCamera : create_room(c)
    \/ \E r \in RoomIds, m \in DeviceModels :
            /\ issued.devices < MaxSampled
            /\ create_device(r, m.power_rating, m.device_type)
    \/ \E d \in 1..issued.devices, b \in BOOLEAN : update_device_state(d, b)
    \/ \E r \in RoomIds, b \in BOOLEAN :
            /\ update_occupancy(r, b, now)
            /\ Len(energy_savings') <= MaxSavings
    \/ \E r \in RoomIds : delete_room(r)
    \/ \E d \in 1..issued.devices : delete_device(d)
    \/ log_hourly_begin
    \/ log_hourly_consumption

SpecLedger == Init /\ [][NextLedger]_vars

\* C23: the hourly ledger is append-only: every step leaves the logs already
\* written where they were and as they were, whatever the step is (a later run
\* of the job, an occupancy report, a state change, the deletion of a log's
\* device or room).
C23_HourlyLedgerAppendOnly ==
    [][ /\ Len(hourly_power_logs') >= Len(hourly_power_logs)
        /\ SubSeq(hourly_power_logs', 1, Len(hourly_power_logs))
                = hourly_power_logs ]_vars

\* C23 witness: after a second run of the job, the ledger holds a log of the
\* first hour whose device and room have both been deleted.
C23_Witness ==
    /\ last.op \in {"delete_room", "delete_device"}
    /\ \E n, m \in 1..Len(hourly_power_logs) :
        /\ hourly_power_logs[n].hour_start < hourly_power_logs[m].hour_start
        /\ \A i \in 1..Len(devices) :
                devices[i].id # hourly_power_logs[n].device_id
        /\ \A k \in 1..Len(rooms) :
                rooms[k].id # hourly_power_logs[n].room_id
        /\ hourly_power_logs[n].room_id \in 1..issued.rooms

\* C24: a run of the hourly job, from its clock read to its last insert,
\* leaves rooms, devices and the savings ledger as they were and only appends
\* to the hourly ledger.
C24_JobOnlyAppendsLogs ==
    [][ (job' # job) =>
            /\ UNCHANGED <<rooms, devices, energy_savings>>
            /\ Len(hourly_power_logs') >= Len(hourly_power_logs)
            /\ SubSeq(hourly_power_logs', 1, Len(hourly_power_logs))
                    = hourly_power_logs ]_vars

\* C24 witness: a run has just logged a device that was switched inside the
\* hour, with a room registered and a record in the savings ledger.
C24_Witness ==
    /\ RunCompleted
    /\ rooms # <<>>
    /\ energy_savings # <<>>
    /\ Len(hourly_power_logs) > last.pre.logs
    /\ \E i \in 1..Len(devices) :
        /\ devices[i].last_state_change > job.hour_start
        /\ devices[i].last_state_change < job.hour_end

\* ================================================================ properties of the job's window
\* C27: a run that starts at time now fixes the window [h - 60, h) with h =
\* now truncated to the hour; when it inserts its logs it appends one log with
\* that window for each device of the registry as it reads it, in order, and
\* nothing else; no other step writes a log, so an hour whose run did not
\* fire is not logged later.
C27_OneWindowPerRun ==
    [][ /\ (job.pc = "idle" /\ job'.pc = "find") =>
                /\ job'.hour_end = now - (now % HourMinutes)
                /\ job'.hour_start = job'.hour_end - HourMinutes
                /\ hourly_power_logs' = hourly_power_logs
        /\ (job.pc = "find" /\ job'.pc = "idle") =>
                /\ Len(hourly_power_logs') = Len(hourly_power_logs) + Len(devices)
                /\ SubSeq(hourly_power_logs', 1, Len(hourly_power_logs))
                        = hourly_power_logs
                /\ \A i \in 1..Len(devices) :
                    LET log == hourly_power_logs'[Len(hourly_power_logs) + i]
                    IN  /\ log.device_id = devices[i].id
                        /\ log.hour_start = job.hour_start
                        /\ log.hour_end = job.hour_end
        /\ (job' = job) => hourly_power_logs' = hourly_power_logs ]_vars

\* C27 witness: the run of the second hour boundary has logged two devices for
\* the hour before it, and the ledger holds nothing for the hour before that,
\* whose run did not fire although a device was registered then.
C27_Witness ==
    /\ RunCompleted
    /\ Len(devices) = MaxMetered
    /\ job.hour_start = 0
    /\ last.pre.logs = 0
    /\ Len(hourly_power_logs) = MaxMetered
    /\ \E i \in 1..Len(devices) : devices[i].last_state_change < 0

\* ================================================================ devices that stay on
\* at most MaxMetered devices, registered before the hour [0, 60) begins and
\* from then to the end of that hour only ever switched on again, and the job
NextKeptOn ==
    \/ Tick(MaxTime)
    \/ \E m \in DeviceModels :
            /\ now < 0
            /\ Len(devices) < MaxMetered
            /\ create_device(1, m.power_rating, m.device_type)
    \/ \E d \in 1..issued.devices :
            /\ now < HourMinutes
            /\ update_device_state(d, TRUE)
    \/ log_hourly_begin
    \/ log_hourly_consumption

SpecKeptOn == Init /\ [][NextKeptOn]_vars

\* C28 as stated: a device that is on when the hour [0, 60) begins and is
\* never switched off is logged with minutes_on = 60 for that hour, also when
\* it was switched on again inside the hour.
C28_KeptOnLoggedFullHour ==
    (RunCompleted /\ job.hour_start = 0) =>
        \A i \in 1..Len(devices) : RunLog(i).minutes_on = HourMinutes

\* ================================================================ properties of an interleaved sweep
\* C29 as stated: whatever is handled between an occupied=false report's read
\* of the devices that are on and its write, every device the write turns off
\* is among the affected_device_ids the report collected, which are the
\* devices_affected and the summands of energy_saved of the record it appends.
C29_SweptDevicesAccounted ==
    [][ \A w \in inflight :
            ( /\ inflight' = inflight \ {w}
              /\ w.op = "update_occupancy"
              /\ ~w.is_occupied )
            => \A i \in 1..Len(devices) :
                    (devices[i].is_on /\ ~devices'[i].is_on) =>
                        \E k \in 1..Len(w.affected_device_ids) :
                            w.affected_device_ids[k] = devices[i].id ]_vars

\* ================================================================ simulated occupancy of rooms with and without camera
\* a room with or without a camera, its devices and devices carrying an id
\* that names no room, manual state changes and POST /api/simulate-occupancy
NextSimulate ==
    \/ Tick(MaxRequestTime)
    \/ \E c \in BOOLEAN : create_room(c)
    \/ \E r \in RoomIds, m \in DeviceModels :
            create_device(r, m.power_rating, m.device_type)
    \/ \E d \in 1..issued.devices, b \in BOOLEAN : update_device_state(d, b)
    \/ \E choice \in [1..MaxRooms -> BOOLEAN] : simulate_occupancy(choice)

SpecSimulate == Init /\ [][NextSimulate]_vars

\* the positions in db.devices of the devices of room_id that are on
OnIn(room_id) ==
    {i \in 1..Len(devices) : devices[i].room_id = room_id /\ devices[i].is_on}

MaxTrendScanned == 100

MinutesPerDay == DayHours * HourMinutes

\* ts.strftime('%Y-%m-%d'): the UTC calendar date of a timestamp, as the number
\* of its day; the strings compare as the day numbers do
date_key(t) == t \div MinutesPerDay

\* cursor.sort("timestamp", -1): latest first, records of equal timestamp in
\* insertion order
sort_descending(coll) ==
    LET before(j, i) ==
            \/ coll[j].timestamp > coll[i].timestamp
            \/ coll[j].timestamp = coll[i].timestamp /\ j < i
        rank == [i \in 1..Len(coll) |->
                    Cardinality({j \in 1..Len(coll) : before(j, i)}) + 1]
    IN  [k \in 1..Len(coll) |->
            coll[CHOOSE i \in 1..Len(coll) : rank[i] = k]]

\* the keys of daily_data in the order the loop of lines 899-905 inserts them
daily_keys(savings) ==
    LET first == SelectSeq([k \in 1..Len(savings) |-> k],
                    LAMBDA k : \A j \in 1..(k - 1) :
                        date_key(savings[j].timestamp)
                            # date_key(savings[k].timestamp))
    IN  [n \in 1..Len(first) |-> date_key(savings[first[n]].timestamp)]

\* sorted(...) as it would be if the dict were returned as it was filled
unsorted(keys) == keys

\* sorted(daily_data.items()): the (distinct) keys in ascending order
sorted(keys) ==
    [n \in 1..Len(keys) |->
        keys[CHOOSE i \in 1..Len(keys) :
            Cardinality({j \in 1..Len(keys) : keys[j] < keys[i]}) = n - 1]]

\* lines 896-907: the body of the response
EnergyTrend ==
    LET savings == to_list(sort_descending(energy_savings), MaxTrendScanned)
        daily_data(key) ==
            LET of_day == SelectSeq(savings,
                            LAMBDA s : date_key(s.timestamp) = key)
            IN  sum([k \in 1..Len(of_day) |-> of_day[k].energy_saved])
        keys == sorted(daily_keys(savings))
    IN  [n \in 1..Len(keys) |->
            [date |-> keys[n], energy_saved |-> daily_data(keys[n])]]

\* GET /api/dashboard/energy-trend
get_energy_trend ==
    /\ last' = [NoRequest EXCEPT !.op = "get_energy_trend", !.status = 200,
                    !.t = now, !.pre = Snapshot,
                    !.response = Some(EnergyTrend)]
    /\ UNCHANGED <<now, issued, rooms, devices, hourly_power_logs, energy_savings,
                   job, inflight>>

\* The trend is a function of the savings ledger alone. The ledgers it is
\* queried on: up to MaxRecent sweeps of a 3 kW or a 6 kW room on three
\* consecutive days, alone or after a backlog of one sweep less than the scan
\* length, all of the first day; the room and its devices have since been
\* deleted.
MaxRecent == 3

SweepTimes == {0 - TickMinutes, 0, MinutesPerDay}

Sweep(t, kwh) ==
    [room_id |-> 1, energy_saved |-> kwh, devices_affected |-> <<1>>,
     timestamp |-> t]

Backlog(n) == [k \in 1..n |-> Sweep(0 - HourMinutes, 3)]

RecentSweeps ==
    UNION { { s \in [1..n -> {Sweep(t, kwh) : t \in SweepTimes, kwh \in {3, 6}}] :
                \A i \in 1..(n - 1) : s[i].timestamp <= s[i + 1].timestamp }
            : n \in 0..MaxRecent }

InitTrend ==
    /\ now = MinutesPerDay
    /\ issued = [rooms |-> 1, devices |-> 1]
    /\ rooms = <<>>
    /\ devices = <<>>
    /\ hourly_power_logs = <<>>
    /\ energy_savings \in
            { Backlog(n) \o s : n \in {0, MaxTrendScanned - 1}, s \in RecentSweeps }
    /\ job = [pc |-> "idle", hour_start |-> 0, hour_end |-> 0, fired |-> None]
    /\ last = NoRequest
    /\ inflight = {}

NextTrend == get_energy_trend

SpecTrend == InitTrend /\ [][NextTrend]_vars

\* the body of the response when the request handled last was the trend query
TrendAnswered == last.op = "get_energy_trend" /\ last.status = 200
Trend == Head(last.response)

\* what the trend over the records at the positions in S has to be: one entry
\* per date of a record, with the sum of the records of the date, dates
\* strictly ascending
IsTrendOf(trend, S) ==
    /\ {trend[n].date : n \in 1..Len(trend)}
            = {date_key(energy_savings[i].timestamp) : i \in S}
    /\ \A n \in 1..(Len(trend) - 1) : trend[n].date < trend[n + 1].date
    /\ \A n \in 1..Len(trend) :
            trend[n].energy_saved =
                SumOver({i \in S : date_key(energy_savings[i].timestamp)
                                        = trend[n].date},
                        [i \in 1..Len(energy_savings) |->
                            energy_savings[i].energy_saved])

MostRecent ==
    {i \in 1..Len(energy_savings) :
        Cardinality({j \in 1..Len(energy_savings) :
            \/ energy_savings[j].timestamp > energy_savings[i].timestamp
            \/ /\ energy_savings[j].timestamp = energy_savings[i].timestamp
               /\ j < i}) < MaxTrendScanned}

isoformat(dt) ==
    [minute |-> dt.t,
     rest   |-> IF dt.late THEN 2 ELSE IF dt.utc THEN 1 ELSE 0]

\* the stored hour_start of a log: lines 234 and 875, isoformat() of a
\* whole hour in UTC
hour_string(t) == isoformat([t |-> t, late |-> FALSE, utc |-> TRUE])

\* a < b for strings, as MongoDB compares them
string_lt(a, b) ==
    \/ a.minute < b.minute
    \/ a.minute = b.minute /\ a.rest < b.rest

\* the filter of lines 601-606 as it would be with "$gt" for the start of the
\* period
in_period_after(log, start_time, end_time) ==
    /\ string_lt(isoformat(start_time), hour_string(log.hour_start))
    /\ string_lt(hour_string(log.hour_start), isoformat(end_time))

\* lines 601-606: {"hour_start": {"$gte": ..., "$lt": ...}}, a comparison of
\* strings
in_period(log, start_time, end_time) ==
    /\ ~string_lt(hour_string(log.hour_start), isoformat(start_time))
    /\ string_lt(hour_string(log.hour_start), isoformat(end_time))

\* the distinct values of a sequence, each where it occurs first: the keys of
\* a dict in the order they were inserted
keys_in_order(values) ==
    LET first == SelectSeq([k \in 1..Len(values) |-> k],
                    LAMBDA k : \A j \in 1..(k - 1) : values[j] # values[k])
    IN  [n \in 1..Len(first) |-> values[first[n]]]

\* a / 1000 + b / 1000 and 0 + a / 1000, kept as fractions
frac_add(x, y) ==
    IF x.den = y.den
    THEN [num |-> x.num + y.num, den |-> x.den]
    ELSE [num |-> x.num * y.den + y.num * x.den, den |-> x.den * y.den]

\* sum(...) of quotients, from 0 on, in order
RECURSIVE frac_sum(_, _)
frac_sum(acc, values) ==
    IF values = <<>> THEN acc
    ELSE frac_sum(frac_add(acc, Head(values)), Tail(values))

\* lines 590-659: the body of the response. date is None or Some(day), a
\* 'YYYY-MM-DD' string given as the number of its day; late tells whether the
\* request is handled after the start of the minute `now`. Names are not
\* modelled: a room_name is "Unknown Room" or "name", a device entry is its
\* consumption_wh and minutes_on.
HourlyConsumption(date, late) ==
    LET start_time ==
            IF date # None
            THEN [t |-> Head(date) * MinutesPerDay, late |-> FALSE, utc |-> FALSE]
            ELSE [t |-> now - DayHours * HourMinutes, late |-> late, utc |-> TRUE]
        end_time ==
            IF date # None
            THEN [start_time EXCEPT !.t = @ + MinutesPerDay]
            ELSE [t |-> now, late |-> late, utc |-> TRUE]
        logs == to_list(SelectSeq(hourly_power_logs,
                            LAMBDA log : in_period(log, start_time, end_time)),
                        MaxLogsScanned)
        hours == sorted(keys_in_order([k \in 1..Len(logs) |-> logs[k].hour_start]))
        entry(hour_start) ==
            LET of_hour == SelectSeq(logs, LAMBDA log : log.hour_start = hour_start)
                room_ids == keys_in_order(
                                [k \in 1..Len(of_hour) |-> of_hour[k].room_id])
                breakdown(room_id) ==
                    LET of_room == SelectSeq(of_hour,
                                        LAMBDA log : log.room_id = room_id)
                        consumption_wh ==
                            sum([k \in 1..Len(of_room) |->
                                    of_room[k].energy_consumed_wh])
                    IN  [room_id |-> room_id,
                         room_name |-> IF find_one(rooms, room_id) # None
                                       THEN "name" ELSE "Unknown Room",
                         consumption_wh |-> consumption_wh,
                         consumption_kwh |->
                            true_div(consumption_wh, WattsPerKilowatt),
                         devices |-> [k \in 1..Len(of_room) |->
                            [consumption_wh |-> of_room[k].energy_consumed_wh,
                             minutes_on |-> of_room[k].minutes_on]]]
                total_wh == sum([k \in 1..Len(of_hour) |->
                                    of_hour[k].energy_consumed_wh])
            IN  [hour |-> hour_start,
                 total_consumption_wh |-> total_wh,
                 total_consumption_kwh |-> true_div(total_wh, WattsPerKilowatt),
                 room_breakdown |-> [r \in 1..Len(room_ids) |->
                                        breakdown(room_ids[r])]]
        result == [n \in 1..Len(hours) |-> entry(hours[n])]
    IN  [period_start |-> isoformat(start_time),
         period_end |-> isoformat(end_time),
         hourly_data |-> result,
         total_consumption_kwh |->
            frac_sum([num |-> 0, den |-> 1],
                     [n \in 1..Len(result) |-> result[n].total_consumption_kwh])]

\* GET /api/consumption/hourly?date=...
get_hourly_consumption(date, late) ==
    /\ last' = [NoRequest EXCEPT !.op = "get_hourly_consumption", !.status = 200,
                    !.t = now, !.pre = Snapshot,
                    !.query = Some([date |-> date, late |-> late]),
                    !.response = Some(HourlyConsumption(date, late))]
    /\ UNCHANGED <<now, issued, rooms, devices, hourly_power_logs, energy_savings,
                   job, inflight>>

\* the days a query names: the day before the clock's hour 0 and the day of it
QueryDays == {0 - 1, 0}

\* devices of two rooms, one of which exists, the hourly job, the sample-data
\* generator and the hourly consumption query
NextConsumption ==
    \/ Tick(MaxRequestTime)
    \/ create_room(FALSE)
    \/ \E r \in RoomIds, m \in DeviceModels :
            /\ Len(devices) < MaxMetered
            /\ create_device(r, m.power_rating, m.device_type)
    \/ log_hourly_begin
    \/ log_hourly_consumption
    \/ \E u \in {"lo", "hi"} :
            /\ generate_sample_data(MaxDays, u)
            /\ Len(hourly_power_logs') <= MaxLogs
    \/ \E date \in {None} \cup {Some(day) : day \in QueryDays}, late \in BOOLEAN :
            get_hourly_consumption(date, late)

SpecConsumption == Init /\ [][NextConsumption]_vars

\* the body of the response and the query when the request handled last was
\* the hourly consumption query
ConsumptionAnswered == last.op = "get_hourly_consumption" /\ last.status = 200
Consumption == Head(last.response)
Query == Head(last.query)

\* the requested window as instants [t, late]: the UTC day named by the
\* query, or the 24 hours that end when the request is handled
WindowStart ==
    IF Query.date # None
    THEN [t |-> Head(Query.date) * MinutesPerDay, late |-> FALSE]
    ELSE [t |-> last.t - DayHours * HourMinutes, late |-> Query.late]

WindowEnd ==
    IF Query.date # None
    THEN [t |-> (Head(Query.date) + 1) * MinutesPerDay, late |-> FALSE]
    ELSE [t |-> last.t, late |-> Query.late]

NotAfter(a, b) == a.t < b.t \/ (a.t = b.t /\ (a.late => b.late))

\* the positions of the logs whose hour_start lies in [WindowStart, WindowEnd)
InWindow ==
    {i \in 1..Len(hourly_power_logs) :
        LET h == [t |-> hourly_power_logs[i].hour_start, late |-> FALSE]
        IN  NotAfter(WindowStart, h) /\ ~NotAfter(WindowEnd, h)}

EnergyOfLog == [i \in 1..Len(hourly_power_logs) |->
                    hourly_power_logs[i].energy_consumed_wh]

\* C22: the hourly consumption has one entry per distinct hourStart of the
\* records whose hourStart lies in the requested window (start inclusive, end
\* exclusive) and no other entry, in ascending order of hourStart; an entry's
\* total is the sum of its room totals; a room total is the sum of the
\* energyWh of the room's device entries, which are the window's records of
\* that hour and room; the overall total is the sum of the hourly totals
\* divided by 1000.
C22_HourlyConsumptionOfWindow ==
    ConsumptionAnswered =>
        LET data == Consumption.hourly_data
            LogsOf(hour, room_id) ==
                {i \in InWindow :
                    /\ hourly_power_logs[i].hour_start = hour
                    /\ hourly_power_logs[i].room_id = room_id}
        IN  /\ {data[n].hour : n \in 1..Len(data)}
                    = {hourly_power_logs[i].hour_start : i \in InWindow}
            /\ \A n \in 1..(Len(data) - 1) : data[n].hour < data[n + 1].hour
            /\ \A n \in 1..Len(data) :
                LET breakdown == data[n].room_breakdown
                IN  /\ data[n].total_consumption_wh =
                            SumOver(1..Len(breakdown),
                                [r \in 1..Len(breakdown) |->
                                    breakdown[r].consumption_wh])
                    /\ \A r, q \in 1..Len(breakdown) :
                            breakdown[r].room_id = breakdown[q].room_id => r = q
                    /\ {breakdown[r].room_id : r \in 1..Len(breakdown)}
                            = {hourly_power_logs[i].room_id :
                                i \in {j \in InWindow :
                                    hourly_power_logs[j].hour_start = data[n].hour}}
                    /\ \A r \in 1..Len(breakdown) :
                        /\ breakdown[r].consumption_wh =
                                SumOver(1..Len(breakdown[r].devices),
                                    [d \in 1..Len(breakdown[r].devices) |->
                                        breakdown[r].devices[d].consumption_wh])
                        /\ Len(breakdown[r].devices) =
                                Cardinality(LogsOf(data[n].hour, breakdown[r].room_id))
                        /\ breakdown[r].consumption_wh =
                                SumOver(LogsOf(data[n].hour, breakdown[r].room_id),
                                        EnergyOfLog)
            /\ Consumption.total_consumption_kwh.num * WattsPerKilowatt
                    = Consumption.total_consumption_kwh.den
                        * SumOver(1..Len(data),
                            [n \in 1..Len(data) |-> data[n].total_consumption_wh])

\* C22 witness: a query was answered with entries for several hours, one of
\* them with two rooms that both consumed energy, while the ledger holds a
\* record outside the window.
C22_Witness ==
    /\ ConsumptionAnswered
    /\ Len(Consumption.hourly_data) > 1
    /\ \E n \in 1..Len(Consumption.hourly_data) :
            LET breakdown == Consumption.hourly_data[n].room_breakdown
            IN  /\ Len(breakdown) = 2
                /\ \A r \in 1..2 : breakdown[r].consumption_wh > 0
    /\ InWindow # 1..Len(hourly_power_logs)

====
